---- MODULE Spec2Model ----
(***************************************************************************)
(* A model of the type-erased vector of src/src/vector.c.                  *)
(*                                                                         *)
(* The vector header is the record v (the fields of struct vector), the    *)
(* caller's handle is vp, and the block v.data points to is the byte       *)
(* sequence mem (byte k of the block is mem[k+1]).  Every public function  *)
(* is one action.  Each action is built from an operator that computes,    *)
(* from the header, the block and the arguments, the set of outcomes the   *)
(* C function can produce: the allocator may return NULL, memory returned  *)
(* by malloc holds arbitrary bytes, and an access outside the block is     *)
(* undefined behaviour: a read yields arbitrary bytes, the part of a write *)
(* that falls outside the block is not retained, and the call may also     *)
(* abort the process.                                                      *)
(*                                                                         *)
(* last records the call that produced the current state: its arguments,   *)
(* what it returned, the header and the block as they were before it, and  *)
(* the calls it made to the allocator, to a deallocator and to the         *)
(* caller's element destructor, in order.                                  *)
(*                                                                         *)
(* The policy registry is the three globals __vec_alloc, __vec_dealloc and  *)
(* __vec_growby, each holding the name of the function installed.  The     *)
(* caller's iterator is the pointer itp and the struct vector_iter it.     *)
(*                                                                         *)
(* Callers pass the handle vector_new returned and non-NULL element        *)
(* pointers of objsz bytes.                                                *)
(***************************************************************************)
EXTENDS Integers, Sequences, FiniteSets, TLC

VARIABLES vp, v, mem, last, __vec_alloc, __vec_dealloc, __vec_growby,
          itp, it, nexts

\* The policy registry: the three function pointers of the library.
hooks == <<__vec_alloc, __vec_dealloc, __vec_growby>>

\* The caller's iterator pointer, the struct vector_iter behind it, and the
\* number of vector_get_next calls made on it since it was created or reset.
iter == <<itp, it, nexts>>

vars == <<vp, v, mem, last, __vec_alloc, __vec_dealloc, __vec_growby,
          itp, it, nexts>>

(* ------------------------------ bounds -------------------------------- *)

\* Largest element width, in bytes, given to vector_new.
MaxObjSz == 2
\* Largest initial element count given to vector_new.
MaxInit == 2
\* Largest index given to get, insert and erase.
MaxIdx == 3
\* Largest count given to reserve.
MaxReserve == 3
\* The heap serves no request larger than this many bytes.
MaxBytes == 4
\* Largest argument given to the growth policy on its own.
MaxGrowIn == 64
\* Most vector_get_next calls made on an iterator between two resets.
MaxNexts == 4

(* ------------------------- program constants --------------------------- *)

VEC_SUCCESS == 0
VEC_ERANGE == -1
VEC_EINVAL == -2
VEC_EMAXED == -3
VEC_EIMMUT == -4
VEC_ENOMEM == -5
VEC_EITEHX == -6
VEC_NEXTSIZE == 0

\* size_t arithmetic wraps; the model narrows size_t to 16 bits.
SizeMod == 2 ^ 16

NULL == 0

\* The address of a block the allocator returned.
BLOCK == 1

\* The code copies bytes and stores zero bytes and never tests a byte, so
\* a byte is modelled as zero or not zero.
Byte == {0, 1}

\* The element byte patterns of width w.
Elems(w) == [1 .. w -> Byte]

\* n zero bytes (memset(arr, 0, n)).
Zeros(n) == [i \in 1 .. n |-> 0]

Min(a, b) == IF a < b THEN a ELSE b

(* ------------------------------ the heap ------------------------------- *)

\* What the allocator may return for a request of n bytes: NULL, or the
\* address of a fresh block.
AllocResults(n) == IF n > MaxBytes THEN {NULL} ELSE {NULL, BLOCK}

\* The contents of a fresh block of n bytes after memcpy(block, src, cnt):
\* the bytes copied from inside src are src's, every other byte of the
\* block is whatever the heap held (or what lay past the end of src).
CopyInto(n, src, cnt) ==
    LET k == Min(Min(cnt, Len(src)), n)
    IN  { [i \in 1 .. n |-> IF i <= k THEN src[i] ELSE junk[i - k]] :
            junk \in [1 .. (n - k) -> Byte] }

\* memcpy(dst, src, cnt) leaves the block it reads or the block it writes.
CopyIsUB(n, src, cnt) == cnt > Len(src) \/ cnt > n

(* ------------------------ outcomes of a call --------------------------- *)

\* One outcome of a call: the status returned, the header and the block
\* afterwards, whether the call left a block (ub), the bytes stored through
\* the out-pointer (<<>> when none were), the argument and the result of the
\* growth policy when it was consulted (-1 otherwise), and the number of
\* times the block was replaced by a fresh one and released (grew).
Outcome(ret, vec, m, ub, out, gin, gout, grew) ==
    [ret |-> ret, v |-> vec, mem |-> m, ub |-> ub, out |-> out,
     gin |-> gin, gout |-> gout, grew |-> grew, calls |-> <<>>]

\* The outcome o of a call that made the calls cs, in that order.
WithCalls(o, cs) == [o EXCEPT !.calls = cs]

\* A call of the installed allocator for n bytes (what names the block
\* asked for; n is 0 for a header, whose width the model does not track).
Obtain(what, n) == [kind |-> "alloc", fn |-> __vec_alloc, what |-> what, at |-> n]

\* A call of the deallocating function fn on a block.
Release(fn, what) == [kind |-> "release", fn |-> fn, what |-> what, at |-> 0]

\* A call of the caller's element destructor on the element at byte off.
Destroy(off) == [kind |-> "dtor", fn |-> "elem_dtor", what |-> "element", at |-> off]

\* An early return: nothing is touched.
Return(ret, vec, m) == Outcome(ret, vec, m, FALSE, <<>>, -1, -1, 0)

(* --------------------------- static helpers ---------------------------- *)

__vector_idx_is_valid(vec, idx) == idx >= 0 /\ idx < vec.capacity

\* The byte offset of slot idx in the block.
__vector_idx_to_ptr(vec, idx) == idx * vec.objsz

__vector_is_valid(vec) == vec.data # NULL

__vector_needs_realloc_for(vec, idx) == idx > vec.capacity

RECURSIVE BitAnd(_, _)
\* a & b on naturals.
BitAnd(a, b) ==
    IF a = 0 \/ b = 0 THEN 0
    ELSE (a % 2) * (b % 2) + 2 * BitAnd(a \div 2, b \div 2)

RECURSIVE GrowLoop(_, _)
\* while (y > sz) y <<= 1; return y;
GrowLoop(y, sz) == IF y > sz THEN GrowLoop((y * 2) % SizeMod, sz) ELSE y

__vector_default_growby(sz) ==
    IF sz = 0 THEN 1
    ELSE IF BitAnd(sz, sz - 1) = 0 THEN (sz * 2) % SizeMod
    ELSE GrowLoop(1, sz)

\* A growth policy a caller installs: one more than asked.
grow_by_one(sz) == (sz + 1) % SizeMod

\* The functions the registry can hold, by name.
Allocators == {"malloc", "pool_alloc"}
Deallocators == {"free", "pool_free"}
GrowthFns == {"__vector_default_growby", "grow_by_one"}

\* A null function pointer.
NoFn == "null"

\* A call through a growby_fn pointer.
CallGrowby(fn, sz) ==
    IF fn = "__vector_default_growby" THEN __vector_default_growby(sz)
    ELSE grow_by_one(sz)

\* memcpy(el, p, objsz) at byte offset off of the block m: the bytes that
\* fall inside the block are stored.
WriteAt(m, off, bytes) ==
    [i \in 1 .. Len(m) |->
        IF off < i /\ i <= off + Len(bytes) THEN bytes[i - off] ELSE m[i]]

\* memcpy(p, el, n) from byte offset off of the block m: the bytes inside
\* the block are the block's, those past its end are arbitrary.
ReadAt(m, off, n) ==
    LET k == IF off >= Len(m) THEN 0 ELSE Min(n, Len(m) - off)
    IN  { [j \in 1 .. n |-> IF j <= k THEN m[off + j] ELSE junk[j - k]] :
            junk \in [1 .. (n - k) -> Byte] }

\* An access of n bytes at offset off leaves the block m.
OutOfBlock(m, off, n) == n > 0 /\ off + n > Len(m)

\* __vector_realloc with the old block released before the new one is
\* known to exist: on an allocation failure the block is gone.
ReallocReleasesFirst(vec, m, atleast) ==
    LET cursz == IF atleast # 0 THEN atleast ELSE vec.capacity
        g     == CallGrowby(__vec_growby, cursz)
        newsz == (g * vec.objsz) % SizeMod
    IN  IF newsz <= vec.capacity
        THEN {Outcome(VEC_EMAXED, vec, m, FALSE, <<>>, cursz, g, 0)}
        ELSE UNION {
               IF newp = NULL
               THEN {WithCalls(Outcome(VEC_ENOMEM, [vec EXCEPT !.data = NULL], <<>>,
                                       FALSE, <<>>, cursz, g, 1),
                               <<Release("free", "buffer"), Obtain("buffer", newsz)>>)}
               ELSE { WithCalls(Outcome(VEC_SUCCESS,
                                        [vec EXCEPT !.data = newp, !.capacity = newsz],
                                        nm, CopyIsUB(newsz, m, vec.size), <<>>,
                                        cursz, g, 1),
                                <<Release("free", "buffer"), Obtain("buffer", newsz)>>) :
                        nm \in CopyInto(newsz, m, vec.size) } :
               newp \in AllocResults(newsz) }

\* __vector_realloc with the growth policy fixed for a vector at its first
\* growth.
ReallocKeepsFirstPolicy(vec, m, atleast) ==
    LET cursz == IF atleast # 0 THEN atleast ELSE vec.capacity
        g     == CallGrowby(IF last.grown_by # NoFn THEN last.grown_by ELSE __vec_growby,
                            cursz)
        newsz == (g * vec.objsz) % SizeMod
    IN  IF newsz <= vec.capacity
        THEN {Outcome(VEC_EMAXED, vec, m, FALSE, <<>>, cursz, g, 0)}
        ELSE UNION {
               IF newp = NULL
               THEN {WithCalls(Outcome(VEC_ENOMEM, vec, m, FALSE, <<>>, cursz, g, 0),
                               <<Obtain("buffer", newsz)>>)}
               ELSE { WithCalls(Outcome(VEC_SUCCESS,
                                        [vec EXCEPT !.data = newp, !.capacity = newsz],
                                        nm, CopyIsUB(newsz, m, vec.size), <<>>,
                                        cursz, g, 1),
                                <<Obtain("buffer", newsz), Release("free", "buffer")>>) :
                        nm \in CopyInto(newsz, m, vec.size) } :
               newp \in AllocResults(newsz) }

__vector_realloc(vec, m, atleast) ==
    LET cursz == IF atleast # 0 THEN atleast ELSE vec.capacity
        g     == CallGrowby(__vec_growby, cursz)
        newsz == (g * vec.objsz) % SizeMod
    IN  IF newsz <= vec.capacity
        THEN {Outcome(VEC_EMAXED, vec, m, FALSE, <<>>, cursz, g, 0)}
        ELSE UNION {
               IF newp = NULL
               THEN {WithCalls(Outcome(VEC_ENOMEM, vec, m, FALSE, <<>>, cursz, g, 0),
                               <<Obtain("buffer", newsz)>>)}
               ELSE { WithCalls(Outcome(VEC_SUCCESS,
                                        [vec EXCEPT !.data = newp, !.capacity = newsz],
                                        nm, CopyIsUB(newsz, m, vec.size), <<>>,
                                        cursz, g, 1),
                                <<Obtain("buffer", newsz), Release("free", "buffer")>>) :
                        nm \in CopyInto(newsz, m, vec.size) } :
               newp \in AllocResults(newsz) }

(* -------------------------- public functions --------------------------- *)

\* vector_allocator returning the function it has just installed.
AllocatorReturnsNew(alloc) ==
    [ret |-> IF alloc # NoFn THEN alloc ELSE __vec_alloc,
     now |-> IF alloc # NoFn THEN alloc ELSE __vec_alloc]

\* vector_allocator(alloc): what it returns and the allocator installed
\* afterwards.
vector_allocator(alloc) ==
    [ret |-> __vec_alloc,
     now |-> IF alloc # NoFn THEN alloc ELSE __vec_alloc]

vector_deallocator(dealloc) ==
    [ret |-> __vec_dealloc,
     now |-> IF dealloc # NoFn THEN dealloc ELSE __vec_dealloc]

vector_growby(growby) ==
    [ret |-> __vec_growby,
     now |-> IF growby # NoFn THEN growby ELSE __vec_growby]

\* vector_new without the memset: the array keeps what the heap held.
NewWithoutMemset(nobj, objsz) ==
    UNION {
      IF hp = NULL THEN {[vp |-> NULL, calls |-> <<Obtain("header", 0)>>]}
      ELSE IF nobj > 0
      THEN { IF arr = NULL
             THEN [vp |-> NULL,
                   calls |-> <<Obtain("header", 0), Obtain("buffer", nobj * objsz),
                               Release(__vec_dealloc, "header")>>]
             ELSE [vp |-> hp,
                   v |-> [size |-> 0, capacity |-> nobj, objsz |-> objsz,
                          mutable |-> TRUE, data |-> arr],
                   mem |-> junk,
                   calls |-> <<Obtain("header", 0), Obtain("buffer", nobj * objsz)>>] :
               arr \in AllocResults(nobj * objsz),
               junk \in [1 .. nobj * objsz -> Byte] }
      ELSE {[vp |-> hp,
             v |-> [size |-> 0, capacity |-> nobj, objsz |-> objsz,
                    mutable |-> TRUE, data |-> NULL],
             mem |-> <<>>,
             calls |-> <<Obtain("header", 0)>>]} :
      hp \in {NULL, BLOCK} }

\* vector_new(nobj, objsz): the handles it may return with the header and
\* the block behind each (hp is what the allocator gave for the header, arr
\* what it gave for the array).
vector_new(nobj, objsz) ==
    UNION {
      IF hp = NULL THEN {[vp |-> NULL, calls |-> <<Obtain("header", 0)>>]}
      ELSE IF nobj > 0
      THEN { IF arr = NULL
             THEN [vp |-> NULL,
                   calls |-> <<Obtain("header", 0), Obtain("buffer", nobj * objsz),
                               Release(__vec_dealloc, "header")>>]
             ELSE [vp |-> hp,
                   v |-> [size |-> 0, capacity |-> nobj, objsz |-> objsz,
                          mutable |-> TRUE, data |-> arr],
                   mem |-> Zeros(nobj * objsz),
                   calls |-> <<Obtain("header", 0), Obtain("buffer", nobj * objsz)>>] :
               arr \in AllocResults(nobj * objsz) }
      ELSE {[vp |-> hp,
             v |-> [size |-> 0, capacity |-> nobj, objsz |-> objsz,
                    mutable |-> TRUE, data |-> NULL],
             mem |-> <<>>,
             calls |-> <<Obtain("header", 0)>>]} :
      hp \in {NULL, BLOCK} }

\* vector_free with the block released before the destructor runs.
FreeReleasesBeforeDestroy(hv, vec, elem_dtor) ==
    IF hv = NULL THEN [vp |-> hv, calls |-> <<>>]
    ELSE [vp |-> NULL,
          calls |->
            (IF vec.data # NULL THEN <<Release(__vec_dealloc, "buffer")>> ELSE <<>>)
            \o (IF vec.data # NULL /\ elem_dtor
                THEN [i \in 1 .. vec.size |-> Destroy((i - 1) * vec.objsz)]
                ELSE <<>>)
            \o <<Release(__vec_dealloc, "header")>>]

\* vector_free(&hv, elem_dtor) on a handle hv to the header vec: the handle
\* afterwards and the calls made (elem_dtor: the caller passed a destructor).
vector_free(hv, vec, elem_dtor) ==
    IF hv = NULL THEN [vp |-> hv, calls |-> <<>>]
    ELSE [vp |-> NULL,
          calls |->
            (IF vec.data # NULL /\ elem_dtor
             THEN [i \in 1 .. vec.size |-> Destroy((i - 1) * vec.objsz)]
             ELSE <<>>)
            \o (IF vec.data # NULL THEN <<Release(__vec_dealloc, "buffer")>> ELSE <<>>)
            \o <<Release(__vec_dealloc, "header")>>]

vector_size(vec) == vec.size

vector_capacity(vec) == vec.capacity

vector_is_empty(vec) == vec.size = 0

vector_is_mutable(vec) == IF ~__vector_is_valid(vec) THEN TRUE ELSE vec.mutable

vector_reserve(vec, m, size) ==
    IF ~(size > 0) THEN {Return(VEC_EINVAL, vec, m)}
    ELSE IF ~vec.mutable THEN {Return(VEC_EIMMUT, vec, m)}
    ELSE __vector_realloc(vec, m, size)

vector_fit(vec, m, immutable) ==
    IF ~__vector_is_valid(vec) THEN {Return(VEC_EINVAL, vec, m)}
    ELSE IF vec.size < vec.capacity
    THEN UNION {
           IF fitp = NULL
           THEN {WithCalls(Return(VEC_ENOMEM, vec, m), <<Obtain("buffer", vec.size)>>)}
           ELSE { WithCalls(Outcome(VEC_SUCCESS,
                                    [vec EXCEPT !.capacity = vec.size, !.data = fitp,
                                                !.mutable = ~immutable],
                                    nm, CopyIsUB(vec.size, m, vec.size), <<>>,
                                    -1, -1, 1),
                            <<Obtain("buffer", vec.size), Release("free", "buffer")>>) :
                    nm \in CopyInto(vec.size, m, vec.size) } :
           fitp \in AllocResults(vec.size) }
    ELSE {Outcome(VEC_SUCCESS, [vec EXCEPT !.mutable = ~immutable], m,
                  FALSE, <<>>, -1, -1, 0)}

vector_make_immutable(vec, m) == vector_fit(vec, m, TRUE)

\* p is the caller's out-pointer, which the callers modelled never pass NULL.
vector_get(vec, m, idx) ==
    IF ~__vector_is_valid(vec) THEN {Return(VEC_EINVAL, vec, m)}
    ELSE IF ~__vector_idx_is_valid(vec, idx) THEN {Return(VEC_ERANGE, vec, m)}
    ELSE LET el == __vector_idx_to_ptr(vec, idx)
         IN  { Outcome(VEC_SUCCESS, vec, m, OutOfBlock(m, el, vec.objsz),
                       bytes, -1, -1, 0) :
                 bytes \in ReadAt(m, el, vec.objsz) }

\* The write and the size update that end vector_insert, after outcome g
\* of the growth step.
InsertStore(g, idx, p) ==
    LET el == __vector_idx_to_ptr(g.v, idx)
    IN  [g EXCEPT
           !.mem = WriteAt(g.mem, el, p),
           !.ub  = g.ub \/ OutOfBlock(g.mem, el, g.v.objsz),
           !.v   = IF g.v.size <= idx THEN [g.v EXCEPT !.size = idx + 1]
                   ELSE g.v]

vector_insert(vec, m, idx, p) ==
    IF ~__vector_is_valid(vec) THEN {Return(VEC_EINVAL, vec, m)}
    ELSE LET grown == IF __vector_needs_realloc_for(vec, idx)
                      THEN __vector_realloc(vec, m, VEC_NEXTSIZE)
                      ELSE {Return(VEC_SUCCESS, vec, m)}
         IN  { IF g.ret # VEC_SUCCESS THEN g ELSE InsertStore(g, idx, p) :
                 g \in grown }

vector_erase(vec, m, idx) ==
    IF ~__vector_is_valid(vec) THEN {Return(VEC_EINVAL, vec, m)}
    ELSE IF ~vec.mutable THEN {Return(VEC_EIMMUT, vec, m)}
    ELSE IF ~__vector_idx_is_valid(vec, idx) THEN {Return(VEC_ERANGE, vec, m)}
    ELSE LET el == __vector_idx_to_ptr(vec, idx)
         IN  {Outcome(VEC_SUCCESS,
                      IF idx = (vec.size - 1) % SizeMod
                      THEN [vec EXCEPT !.size = vec.size - 1] ELSE vec,
                      WriteAt(m, el, Zeros(vec.objsz)),
                      OutOfBlock(m, el, vec.objsz), <<>>, -1, -1, 0)}

vector_push(vec, m, p) == vector_insert(vec, m, vec.size, p)

\* vector_pop taking element 0 when there is no last element.
PopClampsIndex(vec, m) ==
    LET idx == IF vec.size = 0 THEN 0 ELSE vec.size - 1
    IN  IF ~vec.mutable THEN {Return(VEC_EIMMUT, vec, m)}
        ELSE UNION {
               IF g.ret # VEC_SUCCESS THEN {g}
               ELSE { [e EXCEPT !.out = g.out, !.ub = g.ub \/ e.ub] :
                        e \in vector_erase(vec, m, idx) } :
               g \in vector_get(vec, m, idx) }

vector_pop(vec, m) ==
    IF ~vec.mutable THEN {Return(VEC_EIMMUT, vec, m)}
    ELSE UNION {
           IF g.ret # VEC_SUCCESS THEN {g}
           ELSE { [e EXCEPT !.out = g.out, !.ub = g.ub \/ e.ub] :
                    e \in vector_erase(vec, m, (vec.size - 1) % SizeMod) } :
           g \in vector_get(vec, m, (vec.size - 1) % SizeMod) }

(* ------------------------------ iterators ------------------------------ *)

\* vector_get_iterator(v, begin, end) on the vector behind handle hv: the
\* pointers it may return, with the struct behind each.
vector_get_iterator(hv, vec, begin, end) ==
    IF ~__vector_is_valid(vec) THEN {[itp |-> NULL, calls |-> <<>>]}
    ELSE IF ~(__vector_idx_is_valid(vec, begin) /\ __vector_idx_is_valid(vec, end))
    THEN {[itp |-> NULL, calls |-> <<>>]}
    ELSE IF ~(begin <= end) THEN {[itp |-> NULL, calls |-> <<>>]}
    ELSE { IF ip = NULL
           THEN [itp |-> NULL, calls |-> <<Obtain("iterator", 0)>>]
           ELSE [itp |-> ip,
                 it |-> [v |-> hv, begin |-> begin, end |-> end, current |-> begin],
                 calls |-> <<Obtain("iterator", 0)>>] :
             ip \in {NULL, BLOCK} }

vector_has_next(ip, itr) ==
    IF ~(ip # NULL /\ itr.v # NULL) THEN FALSE
    ELSE itr.current >= itr.begin /\ itr.current < itr.end

\* vector_get_next(it, p): the struct afterwards with the outcome of the
\* call (p is never NULL).
vector_get_next(ip, itr, vec, m) ==
    IF ~(ip # NULL /\ itr.v # NULL) THEN {[it |-> itr, o |-> Return(VEC_EINVAL, vec, m)]}
    ELSE IF ~vector_has_next(ip, itr) THEN {[it |-> itr, o |-> Return(VEC_EITEHX, vec, m)]}
    ELSE LET adv == [itr EXCEPT !.current = (itr.current + 1) % SizeMod]
         IN  { [it |-> adv, o |-> g] : g \in vector_get(vec, m, adv.current - 1) }

\* vector_reset_iterator putting the cursor on the first slot of the vector.
ResetToFirstSlot(ip, itr) ==
    IF ip = NULL THEN itr ELSE [itr EXCEPT !.current = 0]

vector_reset_iterator(ip, itr) ==
    IF ip = NULL THEN itr ELSE [itr EXCEPT !.current = itr.begin]

\* vector_free_iterator(it): the calls it makes.
vector_free_iterator(ip) ==
    IF ip = NULL THEN <<>> ELSE <<Release(__vec_dealloc, "iterator")>>

(* ------------------------------ the state ------------------------------ *)

\* The header when there is no vector.
NoVector == [size |-> 0, capacity |-> 0, objsz |-> 0, mutable |-> FALSE, data |-> NULL]

\* The struct vector_iter when there is no iterator.
NoIter == [v |-> NULL, begin |-> 0, end |-> 0, current |-> 0]

\* The record of a call. pre_it is the struct vector_iter as it was before
\* the call. grown_by names the growth policy under which the
\* vector last grew (NoFn while it has not), grown_before the same as it
\* was when the call was made.
Called(op, idx, p, n, flag, o, crash) ==
    [op |-> op, idx |-> idx, p |-> p, n |-> n, flag |-> flag,
     ret |-> o.ret, out |-> o.out, ub |-> o.ub, crashed |-> crash,
     gin |-> o.gin, gout |-> o.gout, grew |-> o.grew,
     pre_v |-> v, pre_mem |-> mem, pre_vp |-> vp, calls |-> o.calls,
     fn |-> NoFn, pre_hooks |-> hooks, objsz |-> v.objsz,
     pre_it |-> it, grown_before |-> last.grown_by,
     grown_by |-> IF o.gin # -1 /\ o.grew = 1 /\ ~crash THEN __vec_growby
                  ELSE last.grown_by]

NoCall == [op |-> "none", idx |-> -1, p |-> <<>>, n |-> -1, flag |-> FALSE,
           ret |-> VEC_SUCCESS, out |-> <<>>, ub |-> FALSE, crashed |-> FALSE,
           gin |-> -1, gout |-> -1, grew |-> 0,
           pre_v |-> NoVector, pre_mem |-> <<>>, pre_vp |-> NULL, calls |-> <<>>,
           fn |-> NoFn, objsz |-> 0, grown_before |-> NoFn, grown_by |-> NoFn,
           pre_it |-> NoIter,
           pre_hooks |-> <<"malloc", "free", "__vector_default_growby">>]

\* The registry as the library is loaded.
InitHooks ==
    /\ __vec_alloc = "malloc"
    /\ __vec_dealloc = "free"
    /\ __vec_growby = "__vector_default_growby"

InitIter ==
    /\ itp = NULL
    /\ it = NoIter
    /\ nexts = 0

Init ==
    /\ vp = NULL
    /\ v = NoVector
    /\ mem = <<>>
    /\ last = NoCall
    /\ InitHooks
    /\ InitIter

\* There is a vector and the process runs.
Live == vp # NULL /\ ~last.crashed

\* A call on the vector with one of its outcomes; a call that leaves a
\* block may instead end the process.
Call(op, idx, p, n, flag, outcomes) ==
    /\ \E o \in outcomes, crash \in BOOLEAN :
         /\ crash => o.ub
         /\ v' = IF crash THEN v ELSE o.v
         /\ mem' = IF crash THEN mem ELSE o.mem
         /\ last' = Called(op, idx, p, n, flag, o, crash)
    /\ UNCHANGED <<vp, hooks, iter>>

New ==
    /\ vp = NULL
    /\ \E nobj \in 0 .. MaxInit, objsz \in 1 .. MaxObjSz :
         \E r \in vector_new(nobj, objsz) :
           /\ vp' = r.vp
           /\ v' = IF r.vp = NULL THEN NoVector ELSE r.v
           /\ mem' = IF r.vp = NULL THEN <<>> ELSE r.mem
           /\ last' = [NoCall EXCEPT !.op = "new", !.n = nobj, !.objsz = objsz,
                                     !.ret = r.vp, !.calls = r.calls,
                                     !.pre_hooks = hooks]
    /\ UNCHANGED <<hooks, iter>>

\* What the destructor does with the pointer it is given is the caller's
\* code; the vector is gone afterwards. A vector is not freed while the
\* caller holds an iterator on it.
Free ==
    /\ ~last.crashed
    /\ itp = NULL
    /\ \E elem_dtor \in BOOLEAN :
         LET r == vector_free(vp, v, elem_dtor)
         IN  /\ vp' = r.vp
             /\ v' = IF vp = NULL THEN v ELSE NoVector
             /\ mem' = IF vp = NULL THEN mem ELSE <<>>
             /\ last' = Called("free", -1, <<>>, -1, elem_dtor,
                               WithCalls(Return(VEC_SUCCESS, v, mem), r.calls), FALSE)
    /\ UNCHANGED <<hooks, iter>>

Reserve ==
    /\ Live
    /\ \E size \in 0 .. MaxReserve :
         Call("reserve", -1, <<>>, size, FALSE, vector_reserve(v, mem, size))

MakeImmutable ==
    /\ Live
    /\ Call("make_immutable", -1, <<>>, -1, TRUE, vector_make_immutable(v, mem))

Fit ==
    /\ Live
    /\ \E immutable \in BOOLEAN :
         Call("fit", -1, <<>>, -1, immutable, vector_fit(v, mem, immutable))

Get ==
    /\ Live
    /\ \E idx \in 0 .. MaxIdx :
         Call("get", idx, <<>>, -1, FALSE, vector_get(v, mem, idx))

Insert ==
    /\ Live
    /\ \E idx \in 0 .. MaxIdx, p \in Elems(v.objsz) :
         Call("insert", idx, p, -1, FALSE, vector_insert(v, mem, idx, p))

Erase ==
    /\ Live
    /\ \E idx \in 0 .. MaxIdx :
         Call("erase", idx, <<>>, -1, FALSE, vector_erase(v, mem, idx))

Push ==
    /\ Live
    /\ \E p \in Elems(v.objsz) :
         Call("push", -1, p, -1, FALSE, vector_push(v, mem, p))

Pop ==
    /\ Live
    /\ Call("pop", -1, <<>>, -1, FALSE, vector_pop(v, mem))

Next ==
    \/ New
    \/ Free
    \/ Reserve
    \/ MakeImmutable
    \/ Fit
    \/ Get
    \/ Insert
    \/ Erase
    \/ Push
    \/ Pop

Spec == Init /\ [][Next]_vars

(* ------------------------ traversal by iterator ------------------------ *)

\* The record of a call on the iterator: the vector is not touched.
IterCalled(op, idx, n, ret, out, ub, crash, calls) ==
    Called(op, idx, <<>>, n, FALSE,
           WithCalls(Outcome(ret, v, mem, ub, out, -1, -1, 0), calls), crash)

\* The caller holds one iterator at a time.
GetIterator ==
    /\ Live
    /\ itp = NULL
    /\ \E begin \in 0 .. MaxIdx, end \in 0 .. MaxIdx :
         \E r \in vector_get_iterator(vp, v, begin, end) :
           /\ itp' = r.itp
           /\ it' = IF r.itp = NULL THEN NoIter ELSE r.it
           /\ last' = IterCalled("get_iterator", begin, end, r.itp, <<>>, FALSE,
                                 FALSE, r.calls)
    /\ nexts' = 0
    /\ UNCHANGED <<vp, v, mem, hooks>>

HasNext ==
    /\ Live
    /\ last' = IterCalled("has_next", -1, -1, vector_has_next(itp, it), <<>>,
                          FALSE, FALSE, <<>>)
    /\ UNCHANGED <<vp, v, mem, hooks, iter>>

GetNext ==
    /\ Live
    /\ nexts < MaxNexts
    /\ \E r \in vector_get_next(itp, it, v, mem), crash \in BOOLEAN :
         /\ crash => r.o.ub
         /\ it' = r.it
         /\ last' = IterCalled("get_next", -1, -1, r.o.ret, r.o.out, r.o.ub,
                               crash, <<>>)
    /\ nexts' = nexts + 1
    /\ UNCHANGED <<vp, v, mem, hooks, itp>>

ResetIterator ==
    /\ Live
    /\ it' = vector_reset_iterator(itp, it)
    /\ nexts' = 0
    /\ last' = IterCalled("reset_iterator", -1, -1, VEC_SUCCESS, <<>>, FALSE,
                          FALSE, <<>>)
    /\ UNCHANGED <<vp, v, mem, hooks, itp>>

\* The caller drops the pointer it gave to vector_free_iterator.
FreeIterator ==
    /\ Live
    /\ itp # NULL
    /\ itp' = NULL
    /\ it' = NoIter
    /\ nexts' = 0
    /\ last' = IterCalled("free_iterator", -1, -1, VEC_SUCCESS, <<>>, FALSE,
                          FALSE, vector_free_iterator(itp))
    /\ UNCHANGED <<vp, v, mem, hooks>>

\* A vector is built, then traversed; it is not touched while the caller
\* holds an iterator on it.
NextIter ==
    \/ itp = NULL /\ New
    \/ itp = NULL /\ Insert
    \/ GetIterator
    \/ HasNext
    \/ GetNext
    \/ ResetIterator
    \/ FreeIterator

SpecIter == Init /\ [][NextIter]_vars

(* -------------------------- the policy registry ------------------------ *)

\* The record of a call of a registry function with argument fn.
HookCalled(op, fn, ret) ==
    [Called(op, -1, <<>>, -1, FALSE, Return(ret, v, mem), FALSE) EXCEPT !.fn = fn]

SetAllocator ==
    /\ ~last.crashed
    /\ \E alloc \in Allocators \cup {NoFn} :
         LET r == vector_allocator(alloc)
         IN  /\ __vec_alloc' = r.now
             /\ last' = HookCalled("vector_allocator", alloc, r.ret)
    /\ UNCHANGED <<vp, v, mem, __vec_dealloc, __vec_growby, iter>>

SetDeallocator ==
    /\ ~last.crashed
    /\ \E dealloc \in Deallocators \cup {NoFn} :
         LET r == vector_deallocator(dealloc)
         IN  /\ __vec_dealloc' = r.now
             /\ last' = HookCalled("vector_deallocator", dealloc, r.ret)
    /\ UNCHANGED <<vp, v, mem, __vec_alloc, __vec_growby, iter>>

SetGrowby ==
    /\ ~last.crashed
    /\ \E growby \in GrowthFns \cup {NoFn} :
         LET r == vector_growby(growby)
         IN  /\ __vec_growby' = r.now
             /\ last' = HookCalled("vector_growby", growby, r.ret)
    /\ UNCHANGED <<vp, v, mem, __vec_alloc, __vec_dealloc, iter>>

NextRegistry ==
    \/ SetAllocator
    \/ SetDeallocator
    \/ SetGrowby

\* Vectors that are created, grown, shrunk and freed under a registry that
\* changes while they live.
NextHooks ==
    \/ New
    \/ Free
    \/ Reserve
    \/ Fit
    \/ Push
    \/ SetAllocator
    \/ SetDeallocator
    \/ SetGrowby

SpecHooks == Init /\ [][NextHooks]_vars

\* The registry while vectors are created and freed.
NextLifetime ==
    \/ New
    \/ Free
    \/ NextRegistry

SpecRegistry == Init /\ [][NextLifetime]_vars

\* Vectors that grow while the growth policy changes.
NextGrowth ==
    \/ New
    \/ Reserve
    \/ Insert
    \/ Push
    \/ SetGrowby

SpecGrowth == Init /\ [][NextGrowth]_vars

(* ---------------------- the growth policy on its own ------------------- *)

\* No vector; the argument for the growth policy is chosen.
InitGrowby ==
    /\ vp = NULL
    /\ v = NoVector
    /\ mem = <<>>
    /\ last \in {[NoCall EXCEPT !.op = "growby_arg", !.gin = sz] : sz \in 0 .. MaxGrowIn}
    /\ InitHooks
    /\ InitIter

\* The installed growth policy is applied to the argument.
Growby ==
    /\ last.op = "growby_arg"
    /\ last' = [last EXCEPT !.op = "growby", !.gout = CallGrowby(__vec_growby, last.gin)]
    /\ UNCHANGED <<vp, v, mem, hooks, iter>>

SpecGrowby == InitGrowby /\ [][Growby]_vars

(* --------------------- what the claims talk about ---------------------- *)

\* The last call was op and it returned ret to its caller.
Returned(op, ret) == last.op = op /\ ~last.crashed /\ last.ret = ret

\* What a get of slot idx can return at this point.
GetNow(idx) == vector_get(v, mem, idx)

\* What reading slot i of a vector can yield: its bytes, where the slot lies
\* inside the block.
Slot(vec, m, i) == ReadAt(m, __vector_idx_to_ptr(vec, i), vec.objsz)

\* The vector (vec, m) is as the data model wants it: it has a block, the
\* block holds capacity * objsz bytes, and size is at most capacity.
WellFormed(vec, m) ==
    /\ __vector_is_valid(vec)
    /\ vec.size <= vec.capacity
    /\ Len(m) = vec.capacity * vec.objsz

\* The last call was op on a well-formed vector and it returned ret.
ReturnedOnWellFormed(op, ret) ==
    Returned(op, ret) /\ WellFormed(last.pre_v, last.pre_mem)

\* C1: whenever a vector exists, 0 <= size <= capacity.
C1_SizeWithinCapacity ==
    vp # NULL => 0 <= v.size /\ v.size <= v.capacity

\* C2: when push on a well-formed mutable vector returns success, size has grown
\* by exactly one, the new size is at most the capacity, and get(old size)
\* returns success with exactly the pushed bytes.
C2_PushAppends ==
    (ReturnedOnWellFormed("push", VEC_SUCCESS) /\ last.pre_v.mutable) =>
        /\ v.size = last.pre_v.size + 1
        /\ v.size <= v.capacity
        /\ \A g \in GetNow(last.pre_v.size) :
             g.ret = VEC_SUCCESS /\ g.out = last.p

\* C3: on a frozen vector (make_immutable succeeded and no fit(v, false)
\* came after), push, insert, erase and reserve return the immutable status
\* and leave the header and the bytes as they were, and get still succeeds
\* on every index below the capacity.
C3_FrozenRejectsMutation ==
    (vp # NULL /\ ~last.crashed /\ ~last.pre_v.mutable) =>
        /\ (last.op \in {"push", "insert", "erase"}
              \/ (last.op = "reserve" /\ last.n > 0)) =>
             /\ last.ret = VEC_EIMMUT
             /\ v = last.pre_v
             /\ mem = last.pre_mem
        /\ (last.op = "get" /\ __vector_idx_is_valid(last.pre_v, last.idx)) =>
             last.ret = VEC_SUCCESS

\* The calls that may change the vector.
Mutators == {"reserve", "fit", "make_immutable", "insert", "push", "erase", "pop"}

\* C4: when reserve, fit, make_immutable, insert, push, erase or pop returns
\* a status other than success, the header (size, capacity, mutable flag,
\* data pointer) and the bytes of the block are what they were before the
\* call, and the block was neither replaced nor released.
C4_FailureLeavesVector ==
    (last.op \in Mutators /\ ~last.crashed /\ last.ret # VEC_SUCCESS) =>
        /\ v = last.pre_v
        /\ mem = last.pre_mem
        /\ last.grew = 0

\* A reserve on a vector that holds an element has failed for want of
\* memory.
C4_Witness ==
    /\ last.op = "reserve"
    /\ last.ret = VEC_ENOMEM
    /\ last.pre_v.size > 0
    /\ Len(last.pre_mem) > 0

\* C5: when insert on a well-formed vector at an index beyond the capacity
\* returns success, the
\* block was replaced exactly once, the capacity is now greater than the
\* index, and get of that index returns success with the inserted bytes.
C5_InsertBeyondCapacity ==
    (ReturnedOnWellFormed("insert", VEC_SUCCESS)
       /\ last.idx > last.pre_v.capacity) =>
        /\ last.grew = 1
        /\ v.capacity > last.idx
        /\ \A g \in GetNow(last.idx) :
             g.ret = VEC_SUCCESS /\ g.out = last.p

\* n is a power of two.
IsPowerOfTwo(n) == \E k \in 0 .. 15 : n = 2 ^ k

\* The smallest power of two greater than n.
NextPowerOfTwo(n) ==
    CHOOSE q \in {2 ^ k : k \in 0 .. 15} :
        q > n /\ \A r \in {2 ^ k : k \in 0 .. 15} : r > n => q <= r

\* C6: the default growth policy returns 1 for 0, 2n for a power of two n,
\* and the smallest power of two greater than n for every other n.
C6_DefaultGrowth ==
    last.op = "growby" =>
        last.gout = IF last.gin = 0 THEN 1
                    ELSE IF IsPowerOfTwo(last.gin) THEN 2 * last.gin
                    ELSE NextPowerOfTwo(last.gin)

\* The elements in [0, n) of the vector (vec, m) read as they do in
\* (vec0, m0).
SameElements(vec, m, vec0, m0, n) ==
    \A i \in 0 .. n - 1 : Slot(vec, m, i) = Slot(vec0, m0, i)

\* C7: when reserve(v, k), k > 0, on a well-formed mutable vector returns
\* success, the
\* capacity is at least k, and size and the elements in [0, size) are what
\* they were.
C7_ReserveAtLeast ==
    (ReturnedOnWellFormed("reserve", VEC_SUCCESS)
       /\ last.pre_v.mutable /\ last.n > 0) =>
        /\ v.capacity >= last.n
        /\ v.size = last.pre_v.size
        /\ SameElements(v, mem, last.pre_v, last.pre_mem, v.size)

\* C8: a successful reserve(v, k) on a well-formed vector followed by a
\* successful fit(v, false) leaves capacity equal to size, size as before
\* the reserve, and every element in [0, size) as before the reserve.
C8_ReserveFitRoundTrip ==
    [][ ( /\ ReturnedOnWellFormed("reserve", VEC_SUCCESS)
          /\ last'.op = "fit" /\ ~last'.flag
          /\ ~last'.crashed /\ last'.ret = VEC_SUCCESS )
        => ( /\ v'.capacity = v'.size
             /\ v'.size = last.pre_v.size
             /\ SameElements(v', mem', last.pre_v, last.pre_mem, v'.size) )
      ]_vars

\* C9: a successful push(v, x) on a well-formed mutable vector followed at once
\* by pop(v, out) returns success, stores the bytes of x in out, and brings
\* size and capacity back to what they were before the push.
C9_PushPop ==
    [][ ( /\ ReturnedOnWellFormed("push", VEC_SUCCESS)
          /\ last.pre_v.mutable
          /\ last'.op = "pop" )
        => ( /\ ~last'.crashed
             /\ last'.ret = VEC_SUCCESS
             /\ last'.out = last.p
             /\ v'.size = last.pre_v.size
             /\ v'.capacity = last.pre_v.capacity )
      ]_vars

\* C10: when erase(v, idx) returns success, get(v, idx) returns all-zero
\* bytes, size is one less when idx was size - 1 and as before otherwise,
\* and the capacity and every other slot are as before.
C10_EraseZeroFills ==
    Returned("erase", VEC_SUCCESS) =>
        /\ \A g \in GetNow(last.idx) :
             g.ret = VEC_SUCCESS /\ g.out = Zeros(v.objsz)
        /\ v.size = IF last.idx = last.pre_v.size - 1
                    THEN last.pre_v.size - 1 ELSE last.pre_v.size
        /\ v.capacity = last.pre_v.capacity
        /\ \A i \in (0 .. v.capacity - 1) \ {last.idx} :
             Slot(v, mem, i) = Slot(last.pre_v, last.pre_mem, i)


\* C11: an iterator over [begin, end) on a vector that is not touched:
\* after k vector_get_next calls its cursor is begin + min(k, end - begin);
\* vector_has_next answers true exactly while k < end - begin; the k-th
\* vector_get_next (k <= end - begin) returns VEC_SUCCESS with the element
\* of index begin + k - 1, the one under the cursor before the increment;
\* every later one returns VEC_EITEHX and stores nothing.
C11_IteratorTraversal ==
    itp # NULL =>
      /\ it.current = it.begin + Min(nexts, it.end - it.begin)
      /\ last.op = "has_next" => last.ret = (nexts < it.end - it.begin)
      /\ last.op = "get_next" =>
            IF nexts <= it.end - it.begin
            THEN /\ ~last.crashed
                 /\ last.ret = VEC_SUCCESS
                 /\ Slot(v, mem, it.begin + nexts - 1) = {last.out}
            ELSE /\ last.ret = VEC_EITEHX
                 /\ last.out = <<>>

\* C12: on a valid vector vector_get_iterator(v, begin, end) returns an
\* iterator exactly when 0 <= begin <= end <= capacity, unless the
\* allocator refused the iterator header; otherwise it returns NULL.
C12_IteratorCreation ==
    (last.op = "get_iterator" /\ __vector_is_valid(v)) =>
      IF 0 <= last.idx /\ last.idx <= last.n /\ last.n <= v.capacity
      THEN last.ret # NULL \/ last.calls = <<Obtain("iterator", 0)>>
      ELSE last.ret = NULL

\* C13: a vector_new(n, objsz) that returns a vector returns one with
\* size 0, capacity n, mutable, elements objsz wide and, when n > 0, a
\* block of n slots that are all zero; it asked the allocator for the
\* header and, when n > 0, for the n * objsz bytes of the block.
C13_NewVector ==
    (last.op = "new" /\ last.ret # NULL) =>
      /\ vp = last.ret
      /\ v.size = 0
      /\ v.capacity = last.n
      /\ v.mutable
      /\ v.objsz = last.objsz
      /\ last.n > 0 =>
            /\ __vector_is_valid(v)
            /\ Len(mem) = last.n * last.objsz
            /\ \A i \in 0 .. last.n - 1 : Slot(v, mem, i) = {Zeros(last.objsz)}
      /\ last.n = 0 => ~__vector_is_valid(v) /\ mem = <<>>

\* A vector of two slots of two bytes was created.
C13_Witness ==
    /\ last.op = "new"
    /\ last.ret # NULL
    /\ last.n = 2
    /\ last.objsz = 2
    /\ Len(mem) = 4

\* The calls of kind k among the calls cs, in order.
CallsOfKind(cs, k) == SelectSeq(cs, LAMBDA c : c.kind = k)

\* C14: vector_free on a live handle calls the destructor it was given
\* once for each index 0 .. size - 1, in ascending order, every such call
\* before the first release; it then releases the block (when there is
\* one) and the header, in that order, and sets the handle to NULL. On a
\* NULL handle it makes no call and changes nothing.
C14_FreeOrder ==
    last.op = "free" =>
      IF last.pre_vp = NULL
      THEN last.calls = <<>> /\ vp = NULL /\ v = last.pre_v /\ mem = last.pre_mem
      ELSE /\ vp = NULL
           /\ CallsOfKind(last.calls, "dtor") =
                [i \in 1 .. (IF last.flag THEN last.pre_v.size ELSE 0) |->
                    Destroy((i - 1) * last.pre_v.objsz)]
           /\ \A i, j \in 1 .. Len(last.calls) :
                (last.calls[i].kind = "dtor" /\ last.calls[j].kind = "release") => i < j
           /\ CallsOfKind(last.calls, "release") =
                (IF __vector_is_valid(last.pre_v)
                 THEN <<Release(last.pre_hooks[2], "buffer")>> ELSE <<>>)
                \o <<Release(last.pre_hooks[2], "header")>>
           /\ CallsOfKind(last.calls, "alloc") = <<>>

\* A vector of two elements was freed with a destructor.
C14_Witness ==
    /\ last.op = "free"
    /\ last.pre_vp # NULL
    /\ last.flag
    /\ last.pre_v.size = 2
    /\ Len(last.calls) = 4

\* The position in the registry of the pointer a registry function handles.
HookOf(op) ==
    CASE op = "vector_allocator" -> 1
      [] op = "vector_deallocator" -> 2
      [] op = "vector_growby" -> 3

HookOps == {"vector_allocator", "vector_deallocator", "vector_growby"}

\* A registry function returned what was installed before the call, left
\* it installed when given NULL and installed its argument otherwise, and
\* left the other two pointers as they were.
HookStep ==
    last.op \in HookOps =>
      LET k == HookOf(last.op)
      IN  /\ last.ret = last.pre_hooks[k]
          /\ hooks[k] = IF last.fn = NoFn THEN last.pre_hooks[k] ELSE last.fn
          /\ \A j \in (1 .. 3) \ {k} : hooks[j] = last.pre_hooks[j]

\* C15: each of vector_allocator, vector_deallocator and vector_growby
\* returns the function installed before the call, changes nothing when
\* given NULL, installs a non-NULL argument, and never changes the other
\* two policies; installing f and then installing what that call returned
\* leaves the registry as it was before the two calls.
C15_PolicyHooks ==
    /\ []HookStep
    /\ [][ ( /\ last.op \in HookOps
             /\ last.fn # NoFn
             /\ last'.op = last.op
             /\ last'.fn = last.ret )
           => hooks' = last.pre_hooks ]_vars

\* The allocator was replaced and the replaced one was then put back.
C15_Witness ==
    /\ last.op = "vector_allocator"
    /\ last.pre_hooks[1] = "pool_alloc"
    /\ last.fn = "malloc"
    /\ last.ret = "pool_alloc"
    /\ __vec_alloc = "malloc"

\* C16: while a vector lives its block holds exactly capacity * objsz
\* bytes, so the objsz bytes of every slot 0 .. capacity - 1 lie inside it.
C16_BufferHoldsCapacity ==
    Live =>
      /\ Len(mem) = v.capacity * v.objsz
      /\ \A i \in 0 .. v.capacity - 1 :
           ~OutOfBlock(mem, __vector_idx_to_ptr(v, i), v.objsz)

\* C17: vector_pop on a valid mutable vector of size 0 returns VEC_ERANGE
\* (the index it asks for is size - 1 wrapped to the largest size_t); it
\* leaves the header and the block as they were, stores nothing through
\* the out-pointer and touches no byte inside or outside the block.
C17_PopOnEmpty ==
    ( /\ last.op = "pop"
      /\ __vector_is_valid(last.pre_v)
      /\ last.pre_v.mutable
      /\ last.pre_v.size = 0 ) =>
      /\ ~last.crashed
      /\ ~last.ub
      /\ last.ret = VEC_ERANGE
      /\ last.out = <<>>
      /\ v = last.pre_v
      /\ mem = last.pre_mem

\* pop was called on an empty mutable vector whose first slot is not zero.
C17_Witness ==
    /\ last.op = "pop"
    /\ __vector_is_valid(last.pre_v)
    /\ last.pre_v.mutable
    /\ last.pre_v.size = 0
    /\ last.pre_v.capacity > 0
    /\ Len(last.pre_mem) > 0
    /\ last.pre_mem[1] # 0

\* C18: a vector_fit(v, freeze) (or a vector_make_immutable, which is
\* vector_fit(v, true)) that returns VEC_SUCCESS on a valid vector leaves
\* capacity = size, the size as it was and mutable = ~freeze; when size
\* was already equal to capacity the block is left alone.
C18_FitResult ==
    ( /\ last.op \in {"fit", "make_immutable"}
      /\ ~last.crashed
      /\ last.ret = VEC_SUCCESS
      /\ __vector_is_valid(last.pre_v) ) =>
      /\ v.capacity = v.size
      /\ v.size = last.pre_v.size
      /\ v.mutable = ~last.flag
      /\ last.pre_v.size = last.pre_v.capacity =>
            (mem = last.pre_mem /\ last.grew = 0 /\ last.calls = <<>>)

\* C19: when __vector_realloc runs (in vector_reserve with the requested
\* count as basis, in vector_insert and vector_push with the capacity as
\* basis) under the installed growth policy g on elements of width s, it
\* returns VEC_EMAXED exactly when g(basis) * s <= capacity * s; when it
\* succeeds the capacity becomes g(basis) elements, more than before.
C19_ReallocStep ==
    ( /\ last.op \in {"reserve", "insert", "push"}
      /\ ~last.crashed
      /\ last.gin # -1
      /\ WellFormed(last.pre_v, last.pre_mem) ) =>
      LET s     == last.pre_v.objsz
          cap   == last.pre_v.capacity
          basis == IF last.op = "reserve" THEN last.n ELSE cap
          g     == CallGrowby(last.pre_hooks[3], basis)
      IN  /\ last.gin = basis
          /\ last.gout = g
          /\ (last.ret = VEC_EMAXED) <=> (g * s <= cap * s)
          /\ last.ret = VEC_SUCCESS => (v.capacity = g /\ v.capacity > cap)

\* C20: every block a call obtains it obtains from the allocator installed
\* when the call is made, and every block a call releases it releases with
\* the deallocator installed when the call is made (a release of the NULL
\* block of a vector created with no slots releases nothing).
C20_InstalledPolicies ==
    \A i \in 1 .. Len(last.calls) :
      /\ last.calls[i].kind = "alloc" => last.calls[i].fn = last.pre_hooks[1]
      /\ ( /\ last.calls[i].kind = "release"
           /\ ~(last.calls[i].what = "buffer" /\ ~__vector_is_valid(last.pre_v)) )
         => last.calls[i].fn = last.pre_hooks[2]

\* C21: when a vector that last grew under one growth policy grows again
\* (by vector_reserve, vector_insert or vector_push) after vector_growby
\* has installed another, the candidate capacity is computed by the
\* policy installed at the time of the call, applied to the basis of the
\* call, not by the policy of the earlier growth.
C21_PolicyNotSnapshotted ==
    ( /\ last.op \in {"reserve", "insert", "push"}
      /\ last.gin # -1
      /\ last.grown_before # NoFn
      /\ last.grown_before # last.pre_hooks[3] ) =>
      /\ last.gin = IF last.op = "reserve" THEN last.n ELSE last.pre_v.capacity
      /\ last.gout = CallGrowby(last.pre_hooks[3], last.gin)

\* A vector that had grown under the default policy grew again after
\* grow_by_one was installed, to a candidate the default policy does not
\* give.
C21_Witness ==
    /\ last.op \in {"insert", "push"}
    /\ ~last.crashed
    /\ last.ret = VEC_SUCCESS
    /\ last.grew = 1
    /\ last.grown_before = "__vector_default_growby"
    /\ last.pre_hooks[3] = "grow_by_one"
    /\ last.gout = last.gin + 1
    /\ last.gout # __vector_default_growby(last.gin)

IterOps == {"has_next", "get_next", "reset_iterator"}

\* C22: while the caller holds an iterator, whatever the order of its
\* vector_has_next, vector_get_next and vector_reset_iterator calls:
\* begin <= current <= end; no call changes begin, end or the vector the
\* iterator refers to; a vector_get_next that returns VEC_EITEHX or
\* VEC_EINVAL leaves the cursor where it was and one that returns any
\* other status has moved it by one; vector_reset_iterator puts the cursor
\* on begin; and k calls of vector_get_next after the creation or after a
\* reset leave the cursor on begin + min(k, end - begin), so a traversal
\* after a reset visits the indices the first one visited.
C22_IteratorInvariant ==
    /\ itp # NULL =>
         /\ it.begin <= it.current
         /\ it.current <= it.end
         /\ it.current = it.begin + Min(nexts, it.end - it.begin)
    /\ last.op \in IterOps =>
         /\ it.begin = last.pre_it.begin
         /\ it.end = last.pre_it.end
         /\ it.v = last.pre_it.v
    /\ last.op = "has_next" => it = last.pre_it
    /\ (last.op = "get_next" /\ ~last.crashed) =>
         IF last.ret \in {VEC_EITEHX, VEC_EINVAL}
         THEN it = last.pre_it
         ELSE it.current = last.pre_it.current + 1
    /\ (last.op = "reset_iterator" /\ itp # NULL) => it.current = it.begin

\* An iterator over two slots, not starting at slot 0, was traversed to
\* its end and then reset.
C22_Witness ==
    /\ last.op = "reset_iterator"
    /\ itp # NULL
    /\ it.begin > 0
    /\ it.end - it.begin = 2
    /\ last.pre_it.current = it.end
    /\ it.current = it.begin
    /\ nexts = 0
====
